---- MODULE Spec2Model ----
(***************************************************************************)
(* Aho-Corasick multi-pattern matcher (src/aho_corasick.py) and its gapped *)
(* extension (src/aho_gapped.py).                                          *)
(*                                                                         *)
(* A string is a sequence of one-character strings.  The node arena        *)
(* (AhoCorasick._nodes) is a sequence of node records; a node reference is *)
(* its 1-based arena position, so the root is 1 and Python's None is 0.    *)
(* A node's `next` dict is the sequence of its <<symbol, child>> items in  *)
(* insertion order (the order dict.items() iterates in).                   *)
(***************************************************************************)
EXTENDS Integers, Sequences, FiniteSets, TLC

VARIABLES
    nodes,      \* AhoCorasick._nodes of the exact automaton under construction
    pats,       \* history: the patterns passed to add(), in call order (pat_id = position - 1)
    nbuilds,    \* history: number of build() calls so far
    dirty,      \* history: TRUE when add() was called after the last build()
    res,        \* what the last search() on the automaton as it is now returned:
                \* [text, total, matches, error], or NoCall
    gtext,      \* search_with_gaps: argument text
    gpats,      \* search_with_gaps: argument patterns
    gmin,       \* search_with_gaps: argument min_seed_len
    gpc,        \* search_with_gaps: where the call stands
    gac,        \* the arena of an aho_gapped.AhoCorasick (search_with_gaps: local ac)
    gmeta,      \* search_with_gaps: local meta, meta[pid] being gmeta[pid + 1]
    gmatches,   \* search_with_gaps: matches_by_pat, [pid] being gmatches[pid + 1]
    ghits,      \* history: what ac.search_generator(text) yielded to search_with_gaps
    scan,       \* two scans in progress: the local state of a search() call on
                \* `nodes` (1) and of a search_generator() generator on `gac` (2)
    parse,      \* a parse_pattern_with_gaps call in progress: its argument and locals
    bld         \* a build() call in progress on an automaton of its own

avars == <<nodes, pats, nbuilds, dirty, res>>
gvars == <<gtext, gpats, gmin, gpc, gmeta, gmatches, ghits>>
xvars == <<parse, bld>>
vars == <<nodes, pats, nbuilds, dirty, res, gtext, gpats, gmin, gpc, gac, gmeta,
          gmatches, ghits, scan, parse, bld>>

-----------------------------------------------------------------------------
\* Bounds of the model.
MaxPats == 2
MaxPatLen == 3
MaxTextLen == 3
MaxBuilds == 2
MaxSeedLen == 2
MaxGapPats == 2
MaxGapChars == 3
MaxScanLen == 2
MaxParseLen == 4
MaxBuildPatLen == 4

\* Symbols the model draws patterns and texts from: two alphabet symbols and
\* one symbol outside the alphabet.
Literal == {"A", "C"}
Sigma == Literal \cup {"X"}

RECURSIVE StringsUpTo(_, _)
StringsUpTo(S, n) ==
    IF n = 0 THEN {<<>>}
    ELSE LET shorter == StringsUpTo(S, n - 1)
         IN  shorter \cup {Append(w, c) : w \in {x \in shorter : Len(x) = n - 1}, c \in S}

\* add() takes any string: alphabet strings up to MaxPatLen, and strings with
\* out-of-alphabet symbols one shorter.
Patterns == StringsUpTo(Literal, MaxPatLen) \cup StringsUpTo(Sigma, MaxPatLen - 1)
Texts == StringsUpTo(Sigma, MaxTextLen)

\* Symbols of a gapped pattern string: literals, the gap markers, a digit and
\* a symbol the parser skips.
GapSigma == Literal \cup {".", "{", "}", "1", "X"}
GapPatterns == StringsUpTo(GapSigma, MaxGapChars)

RECURSIVE Symbols(_)
Symbols(l) == IF l = <<>> THEN 0 ELSE Len(Head(l)) + Symbols(Tail(l))

\* the pattern lists handed to search_with_gaps: up to n patterns holding up
\* to MaxGapChars symbols together
RECURSIVE GapLists(_)
GapLists(n) ==
    IF n = 0 THEN {<<>>}
    ELSE LET shorter == GapLists(n - 1)
             longest == {x \in shorter : Len(x) = n - 1}
         IN  shorter \cup
             {Append(lq[1], lq[2]) :
                 lq \in {x \in longest \X GapPatterns :
                             Symbols(x[1]) + Len(x[2]) <= MaxGapChars}}

\* the patterns and texts of the interleaved scans
ScanStrings == StringsUpTo(Sigma, MaxScanLen)

\* the pattern strings parse_pattern_with_gaps is called with on its own:
\* literals in both cases, N, both gap forms, a digit, a blank, a foreign symbol
ParseSigma == {"A", "a", "N", "n", ".", "{", "}", "2", " ", "X"}
ParseStrings == StringsUpTo(ParseSigma, MaxParseLen)

\* the patterns of the automaton whose build() is followed step by step
BuildStrings == StringsUpTo(Literal, MaxBuildPatLen)

RECURSIVE ListsUpTo(_, _)
ListsUpTo(S, n) ==
    IF n = 0 THEN {<<>>}
    ELSE LET shorter == ListsUpTo(S, n - 1)
         IN  shorter \cup {Append(l, q) : l \in {x \in shorter : Len(x) = n - 1}, q \in S}

-----------------------------------------------------------------------------
\* The automaton: Node, AhoCorasick.add, AhoCorasick.build, AhoCorasick.search.

None == 0
Root == 1
NoId == -1

\* the alphabet policy: the literal "ACGTN" of search / search_generator
Alphabet == {"A", "C", "G", "T", "N"}

\* Node.__init__
NewNode == [next |-> <<>>, fail |-> None, out |-> <<>>, id |-> NoId]

\* AhoCorasick.__init__: root = Node(); _nodes = [root]
NewArena == <<NewNode>>

\* ch in node.next
HasNext(node, ch) == \E k \in 1..Len(node.next) : node.next[k][1] = ch

\* node.next[ch]
GetNext(node, ch) ==
    LET k == CHOOSE k \in 1..Len(node.next) : node.next[k][1] = ch
    IN  node.next[k][2]

\* the entry add() appends: pat_id if pat_id is not None else pattern
OutEntry(pattern, pat_id) == IF pat_id # NoId THEN pat_id ELSE pattern

\* a faulty add(): the test `if ch not in node.next` is lost, so a new node
\* always replaces the transition
RECURSIVE AddWalkOverwrite(_, _, _, _)
AddWalkOverwrite(ns, node, pattern, i) ==
    IF i > Len(pattern) THEN [nodes |-> ns, node |-> node]
    ELSE LET ch == pattern[i]
             new == Len(ns) + 1
             items == ns[node].next
             items2 == IF HasNext(ns[node], ch)
                       THEN [k \in 1..Len(items) |->
                                IF items[k][1] = ch THEN <<ch, new>> ELSE items[k]]
                       ELSE Append(items, <<ch, new>>)
             ns2 == Append([ns EXCEPT ![node].next = items2], NewNode)
         IN  AddWalkOverwrite(ns2, new, pattern, i + 1)

\* add(): the loop `for ch in pattern`, from position i on, standing at `node`;
\* gives the arena and the node the pattern ends at
RECURSIVE AddWalk(_, _, _, _)
AddWalk(ns, node, pattern, i) ==
    IF i > Len(pattern) THEN [nodes |-> ns, node |-> node]
    ELSE LET ch == pattern[i]
         IN  IF HasNext(ns[node], ch)
             THEN AddWalk(ns, GetNext(ns[node], ch), pattern, i + 1)
             ELSE LET new == Len(ns) + 1
                      ns2 == Append([ns EXCEPT ![node].next = Append(@, <<ch, new>>)],
                                    NewNode)
                  IN  AddWalk(ns2, new, pattern, i + 1)

\* AhoCorasick.add(pattern, pat_id)
add(ns, pattern, pat_id) ==
    LET w == AddWalk(ns, Root, pattern, 1)
    IN  [w.nodes EXCEPT ![w.node].out = Append(@, OutEntry(pattern, pat_id))]

\* a faulty build(): the failure chain is not walked, the search for a
\* failure target restarts at the root
FailWalkToRoot(ns, v, ch) == Root

\* build(): `while v is not self.root and ch not in v.next: v = v.fail`
RECURSIVE FailWalk(_, _, _)
FailWalk(ns, v, ch) ==
    IF v # Root /\ ~HasNext(ns[v], ch) THEN FailWalk(ns, ns[v].fail, ch) ELSE v

\* build(): the inner loop `for ch, u in r.next.items()`, from item k on
RECURSIVE BuildChildren(_, _, _, _)
BuildChildren(ns, queue, r, k) ==
    IF k > Len(ns[r].next) THEN [nodes |-> ns, queue |-> queue]
    ELSE LET ch == ns[r].next[k][1]
             u == ns[r].next[k][2]
             v == FailWalk(ns, ns[r].fail, ch)
             f == IF HasNext(ns[v], ch) THEN GetNext(ns[v], ch) ELSE Root
             ns2 == [ns EXCEPT ![u].fail = f]
             ns3 == [ns2 EXCEPT ![u].out = @ \o ns2[f].out]
         IN  BuildChildren(ns3, Append(queue, u), r, k + 1)

\* build(): `while queue: r = queue.popleft() ...`
RECURSIVE BuildLoop(_, _)
BuildLoop(ns, queue) ==
    IF queue = <<>> THEN ns
    ELSE LET s == BuildChildren(ns, Tail(queue), Head(queue), 1)
         IN  BuildLoop(s.nodes, s.queue)

\* build(): root.fail = root; every child of the root gets fail = root and is queued
BuildSeed(ns) ==
    LET kids == [k \in 1..Len(ns[Root].next) |-> ns[Root].next[k][2]]
        isKid(n) == \E k \in 1..Len(kids) : kids[k] = n
    IN  [nodes |-> [n \in 1..Len(ns) |->
                       IF n = Root \/ isKid(n) THEN [ns[n] EXCEPT !.fail = Root]
                       ELSE ns[n]],
         queue |-> kids]

\* build(): `for i, n in enumerate(self._nodes): n.id = i`
AssignIds(ns) == [n \in 1..Len(ns) |-> [ns[n] EXCEPT !.id = n - 1]]

\* AhoCorasick.build()
build(ns) ==
    LET s == BuildSeed(ns)
    IN  AssignIds(BuildLoop(s.nodes, s.queue))

\* a faulty search(): a mismatch falls back to the root, not along the failure link
SearchWalkReset(ns, node, ch) ==
    IF node # Root /\ ~HasNext(ns[node], ch) THEN Root ELSE node

\* search(): `while node is not self.root and ch not in node.next: node = node.fail`.
\* A node whose fail is still None leads to None, where `node.next` raises.
RECURSIVE SearchWalk(_, _, _)
SearchWalk(ns, node, ch) ==
    IF node = None THEN None
    ELSE IF node # Root /\ ~HasNext(ns[node], ch) THEN SearchWalk(ns, ns[node].fail, ch)
    ELSE node

\* search(): `for o in node.out: matches.append((idx, o))`
Tagged(idx, out) == [k \in 1..Len(out) |-> <<idx, out[k]>>]

\* a faulty scan: no symbol is taken to be outside the alphabet
OutOfAlphabetNever(ch) == FALSE

\* `ch not in "ACGTN"` of search / search_generator
OutOfAlphabet(ch) == ch \notin Alphabet

\* search(): the call's local state before the loop: node, total, matches, idx
ScanStart == [node |-> Root, idx |-> 0, total |-> 0, matches |-> <<>>, error |-> FALSE]

\* search(): one iteration of `for ch in text`, st being the call's local state
SearchStep(ns, st, ch) ==
    IF OutOfAlphabet(ch)
    THEN [st EXCEPT !.node = Root, !.idx = @ + 1]
    ELSE LET w == SearchWalk(ns, st.node, ch)
         IN  IF w = None
             THEN [st EXCEPT !.node = None, !.error = TRUE]
             ELSE LET n2 == IF HasNext(ns[w], ch) THEN GetNext(ns[w], ch) ELSE Root
                  IN  [node |-> n2,
                       idx |-> st.idx + 1,
                       total |-> st.total + Len(ns[n2].out),
                       matches |-> st.matches \o Tagged(st.idx, ns[n2].out),
                       error |-> FALSE]

\* search(): the loop `for ch in text` from text position i on
RECURSIVE SearchLoop(_, _, _, _)
SearchLoop(ns, text, i, st) ==
    IF i > Len(text) \/ st.error THEN st
    ELSE SearchLoop(ns, text, i + 1, SearchStep(ns, st, text[i]))

\* AhoCorasick.search(text, yield_matches=True): (total, matches), or the
\* AttributeError of following a failure link that is still None
search(ns, text) ==
    LET st == SearchLoop(ns, text, 1, ScanStart)
    IN  [total |-> st.total, matches |-> st.matches, error |-> st.error]

-----------------------------------------------------------------------------
\* The gapped matcher (src/aho_gapped.py).  Its AhoCorasick class repeats the
\* exact automaton's add() and build() statement for statement; only the
\* entry add() appends differs: (pat_id, meta).

\* aho_gapped.AhoCorasick.add(pattern, pat_id, meta)
gadd(ns, pattern, pat_id, meta) ==
    LET w == AddWalk(ns, Root, pattern, 1)
    IN  [w.nodes EXCEPT ![w.node].out = Append(@, [pat_id |-> pat_id, meta |-> meta])]

\* aho_gapped.AhoCorasick.build()
gbuild(ns) == build(ns)

\* search_generator(): `for (pat_id, meta) in node.out: yield idx, pat_id, meta`
Yielded(idx, out) ==
    [k \in 1..Len(out) |-> [idx |-> idx, pat_id |-> out[k].pat_id, meta |-> out[k].meta]]

\* search_generator(): the generator's local state before the loop
GenStart == [node |-> Root, yields |-> <<>>, error |-> FALSE]

\* search_generator(): one iteration of `for idx, ch in enumerate(text)`
GenStep(ns, st, idx, ch) ==
    IF OutOfAlphabet(ch)
    THEN [st EXCEPT !.node = Root]
    ELSE LET w == SearchWalk(ns, st.node, ch)
         IN  IF w = None
             THEN [st EXCEPT !.node = None, !.error = TRUE]
             ELSE LET n2 == IF HasNext(ns[w], ch) THEN GetNext(ns[w], ch) ELSE Root
                  IN  [node |-> n2,
                       yields |-> st.yields \o Yielded(idx, ns[n2].out),
                       error |-> FALSE]

RECURSIVE GenLoop(_, _, _, _)
GenLoop(ns, text, i, st) ==
    IF i > Len(text) \/ st.error THEN st
    ELSE GenLoop(ns, text, i + 1, GenStep(ns, st, i - 1, text[i]))

\* AhoCorasick.search_generator(text), run to exhaustion: everything it yields
search_generator(ns, text) == GenLoop(ns, text, 1, GenStart).yields

\* str.upper() on the symbols a pattern string of the model can hold
Upper(ch) ==
    CASE ch = "a" -> "A"
      [] ch = "c" -> "C"
      [] ch = "g" -> "G"
      [] ch = "t" -> "T"
      [] ch = "n" -> "N"
      [] ch = "x" -> "X"
      [] OTHER -> ch

Whitespace == {" "}
Digits == <<"0", "1", "2", "3", "4", "5", "6", "7", "8", "9">>
IsDigit(ch) == \E d \in 1..Len(Digits) : Digits[d] = ch
DigitValue(ch) == (CHOOSE d \in 1..Len(Digits) : Digits[d] = ch) - 1

\* str.strip()
RECURSIVE Strip(_)
Strip(s) ==
    IF s = <<>> THEN s
    ELSE IF Head(s) \in Whitespace THEN Strip(Tail(s))
    ELSE IF s[Len(s)] \in Whitespace THEN Strip(SubSeq(s, 1, Len(s) - 1))
    ELSE s

\* pat.strip().upper()
Normalise(pat) ==
    LET t == Strip(pat)
    IN  [k \in 1..Len(t) |-> Upper(t[k])]

\* int(): surrounding whitespace is dropped; what is left must be decimal
\* digits (signs and underscores are not symbols of the model)
IntOk(c) ==
    LET t == Strip(c)
    IN  Len(t) >= 1 /\ \A k \in 1..Len(t) : IsDigit(t[k])

RECURSIVE Decimal(_)
Decimal(t) ==
    IF t = <<>> THEN 0
    ELSE 10 * Decimal(SubSeq(t, 1, Len(t) - 1)) + DigitValue(t[Len(t)])

IntValue(c) == Decimal(Strip(c))

\* tokens: ('seq', val) is [typ |-> "seq", val |-> val, gap |-> 0],
\*         ('gap', n)   is [typ |-> "gap", val |-> <<>>, gap |-> n]
SeqToken(val) == [typ |-> "seq", val |-> val, gap |-> 0]
GapToken(n) == [typ |-> "gap", val |-> <<>>, gap |-> n]

\* parse_pattern_with_gaps(): `while j < len(s) and <s[j] is in the run>: j += 1`,
\* j a 0-based position; gives the 0-based position the run ends before
\* the three loop tests: s[j] in 'ACGTN', s[j] == '.', s[j] != '}'
InRun(kind, c) ==
    CASE kind = "seq" -> c \in Alphabet
      [] kind = "dots" -> c = "."
      [] kind = "brace" -> c # "}"

RECURSIVE RunEnd(_, _, _)
RunEnd(s, j, kind) ==
    IF j < Len(s) /\ InRun(kind, s[j + 1]) THEN RunEnd(s, j + 1, kind) ELSE j

\* a faulty parser: an unterminated brace ends the parse with the tokens so far
BadBraceKeepsTokens(s, tokens) == [error |-> FALSE, tokens |-> tokens]

\* parse_pattern_with_gaps(): raise ValueError("Bad pattern brace: " + s)
BadBrace(s, tokens) == [error |-> TRUE, tokens |-> <<>>]

\* parse_pattern_with_gaps(): one pass of the body of `while i < len(s)`, i a
\* 0-based position; gives the new i and tokens, or error = TRUE for ValueError
ParseIter(s, i, tokens) ==
    LET ch == s[i + 1]
    IN  IF ch \in Alphabet
        THEN LET j == RunEnd(s, i, "seq")
             IN  [error |-> FALSE, i |-> j,
                  tokens |-> Append(tokens, SeqToken(SubSeq(s, i + 1, j)))]
        ELSE IF ch = "."
        THEN LET j == RunEnd(s, i, "dots")
             IN  [error |-> FALSE, i |-> j, tokens |-> Append(tokens, GapToken(j - i))]
        ELSE IF ch = "{"
        THEN LET j == RunEnd(s, i + 1, "brace")
             IN  IF j < Len(s) /\ s[j + 1] = "}"
                 THEN IF IntOk(SubSeq(s, i + 2, j))
                      THEN [error |-> FALSE, i |-> j + 1,
                            tokens |-> Append(tokens, GapToken(IntValue(SubSeq(s, i + 2, j))))]
                      ELSE [error |-> TRUE, i |-> i, tokens |-> <<>>]
                 ELSE LET b == BadBrace(s, tokens)
                      IN  [error |-> b.error, i |-> Len(s), tokens |-> b.tokens]
        ELSE IF ch = "N"
        THEN [error |-> FALSE, i |-> i + 1, tokens |-> Append(tokens, GapToken(1))]
        ELSE [error |-> FALSE, i |-> i + 1, tokens |-> tokens]

\* parse_pattern_with_gaps(): the loop `while i < len(s)`
RECURSIVE ParseLoop(_, _, _)
ParseLoop(s, i, tokens) ==
    IF ~(i < Len(s)) THEN [error |-> FALSE, tokens |-> tokens]
    ELSE LET r == ParseIter(s, i, tokens)
         IN  IF r.error THEN [error |-> TRUE, tokens |-> <<>>]
             ELSE ParseLoop(s, r.i, r.tokens)

\* parse_pattern_with_gaps(pat): the token list, or error = TRUE for ValueError
parse_pattern_with_gaps(pat) == ParseLoop(Normalise(pat), 0, <<>>)

\* len(v) if t == 'seq' else v
TokenLen(tok) == IF tok.typ = "seq" THEN Len(tok.val) ELSE tok.gap

\* sum((len(v) if t == 'seq' else v) for t, v in toks), over the first n tokens
RECURSIVE SpanBefore(_, _)
SpanBefore(toks, n) ==
    IF n = 0 THEN 0 ELSE SpanBefore(toks, n - 1) + TokenLen(toks[n])

TotalLen(toks) == SpanBefore(toks, Len(toks))

\* build_seeds_from_pattern(): the loop `for typ, val in tokens`, from token k on
RECURSIVE SeedsLoop(_, _, _, _, _)
SeedsLoop(tokens, min_seed_len, k, offset, seeds) ==
    IF k > Len(tokens) THEN seeds
    ELSE LET tok == tokens[k]
         IN  IF tok.typ = "seq"
             THEN SeedsLoop(tokens, min_seed_len, k + 1, offset + Len(tok.val),
                            IF Len(tok.val) >= min_seed_len
                            THEN Append(seeds, [seed |-> tok.val, off |-> offset])
                            ELSE seeds)
             ELSE SeedsLoop(tokens, min_seed_len, k + 1, offset + tok.gap, seeds)

\* build_seeds_from_pattern(tokens, min_seed_len)
build_seeds_from_pattern(tokens, min_seed_len) ==
    SeedsLoop(tokens, min_seed_len, 1, 0, <<>>)

\* search_with_gaps(): `for seed, off in seeds: ac.add(seed, pat_id=pid, meta=...)`
RECURSIVE AddSeeds(_, _, _, _)
AddSeeds(ns, seeds, pid, k) ==
    IF k > Len(seeds) THEN ns
    ELSE AddSeeds(gadd(ns, seeds[k].seed, pid,
                       [offset |-> seeds[k].off, seed_len |-> Len(seeds[k].seed)]),
                  seeds, pid, k + 1)

\* search_with_gaps(): `if not seeds:` the first non-empty literal token is
\* added with offset 0
AddFallback(ns, toks, pid) ==
    LET ks == {k \in 1..Len(toks) : toks[k].typ = "seq" /\ toks[k].val # <<>>}
    IN  IF ks = {} THEN ns
        ELSE LET k == CHOOSE k \in ks : \A j \in ks : k <= j
             IN  gadd(ns, toks[k].val, pid, [offset |-> 0, seed_len |-> Len(toks[k].val)])

\* search_with_gaps(): the body of `for pid, pat in enumerate(patterns)` once
\* the pattern is parsed: its meta entry and the arena with its seeds added
PreparePattern(ns, pat, toks, pid, min_seed_len) ==
    LET seeds == build_seeds_from_pattern(toks, min_seed_len)
    IN  [meta |-> [pattern |-> pat, tokens |-> toks, length |-> TotalLen(toks)],
         nodes |-> IF seeds = <<>> THEN AddFallback(ns, toks, pid)
                   ELSE AddSeeds(ns, seeds, pid, 1)]

\* a Python slice index i against a string of length n
SliceIndex(i, n) == IF i < 0 THEN (IF i + n < 0 THEN 0 ELSE i + n) ELSE (IF i > n THEN n ELSE i)

\* text[a:b]
PySlice(text, a, b) == SubSeq(text, SliceIndex(a, Len(text)) + 1, SliceIndex(b, Len(text)))

\* search_with_gaps(): the replay `for typ, val in pat_meta['tokens']`, from
\* token k on with the cursor at tpos; the final value of ok
RECURSIVE Replay(_, _, _, _)
Replay(text, toks, k, tpos) ==
    IF k > Len(toks) THEN TRUE
    ELSE IF toks[k].typ = "seq"
    THEN IF PySlice(text, tpos, tpos + Len(toks[k].val)) # toks[k].val THEN FALSE
         ELSE Replay(text, toks, k + 1, tpos + Len(toks[k].val))
    ELSE Replay(text, toks, k + 1, tpos + toks[k].gap)

\* a faulty matcher: the start is taken one symbol too far left
PatternStartOffByOne(idx, seed_len, seed_offset) == idx - seed_len - seed_offset

\* pattern_start = idx - (seed_len - 1) - seed_offset
PatternStart(idx, seed_len, seed_offset) == idx - (seed_len - 1) - seed_offset

\* a faulty matcher: the anchor is not checked against the text's bounds
OutOfBoundsNever(pattern_start, pattern_end, text) == FALSE

\* `if pattern_start < 0 or pattern_end > len(text): continue`
OutOfBounds(pattern_start, pattern_end, text) ==
    pattern_start < 0 \/ pattern_end > Len(text)

\* search_with_gaps(): the body of `for idx, pid, meta_info in ...` for one seed
\* hit: the candidate interval and whether it is recorded
VerifyHit(text, meta, hit) ==
    LET pat_meta == meta[hit.pat_id + 1]
        pattern_start == PatternStart(hit.idx, hit.meta.seed_len, hit.meta.offset)
        pattern_end == pattern_start + pat_meta.length
    IN  [pid |-> hit.pat_id,
         interval |-> <<pattern_start, pattern_end>>,
         ok |-> /\ ~OutOfBounds(pattern_start, pattern_end, text)
                /\ Replay(text, pat_meta.tokens, 1, pattern_start)]

\* a faulty matcher: an interval the pattern already has is not recorded again
RECURSIVE RecordHitsOnce(_, _, _, _, _)
RecordHitsOnce(text, meta, hits, k, matches) ==
    IF k > Len(hits) THEN matches
    ELSE LET v == VerifyHit(text, meta, hits[k])
             have == \E i \in 1..Len(matches[v.pid + 1]) :
                         matches[v.pid + 1][i] = v.interval
         IN  RecordHitsOnce(text, meta, hits, k + 1,
                            IF v.ok /\ ~have
                            THEN [matches EXCEPT ![v.pid + 1] = Append(@, v.interval)]
                            ELSE matches)

\* search_with_gaps(): the loop over the seed hits, from hit k on;
\* matches_by_pat[pid] is matches[pid + 1] (empty for a pid never recorded)
RECURSIVE RecordHits(_, _, _, _, _)
RecordHits(text, meta, hits, k, matches) ==
    IF k > Len(hits) THEN matches
    ELSE LET v == VerifyHit(text, meta, hits[k])
         IN  RecordHits(text, meta, hits, k + 1,
                        IF v.ok THEN [matches EXCEPT ![v.pid + 1] = Append(@, v.interval)]
                        ELSE matches)

-----------------------------------------------------------------------------
\* The exact automaton as a state machine: any sequence of add / build / search.

NoCall == [text |-> <<>>, total |-> -1, matches |-> <<>>, error |-> FALSE]

\* no scan has been started
Idle == << [pc |-> "idle", text |-> <<>>, pos |-> 0, st |-> ScanStart],
           [pc |-> "idle", text |-> <<>>, pos |-> 0, st |-> GenStart] >>

\* no parse_pattern_with_gaps call and no stepwise build() in progress
NoParse == [pc |-> "idle", pat |-> <<>>, s |-> <<>>, i |-> 0, tokens |-> <<>>]
NoBuild ==
    [pc |-> "idle", ns |-> NewArena, ps |-> <<>>,
     queue |-> <<>>, r |-> None, k |-> 0, ch |-> "", u |-> None, v |-> None,
     text |-> <<>>, st |-> ScanStart,
     deq |-> <<>>, walked |-> 0, seen |-> <<>>]

\* no search_with_gaps call is under way
GapIdle ==
    /\ gtext = <<>>
    /\ gpats = <<>>
    /\ gmin = 0
    /\ gpc = "idle"
    /\ gac = NewArena
    /\ gmeta = <<>>
    /\ gmatches = <<>>
    /\ ghits = <<>>

Init ==
    /\ nodes = NewArena
    /\ pats = <<>>
    /\ nbuilds = 0
    /\ dirty = FALSE
    /\ res = NoCall
    /\ GapIdle
    /\ scan = Idle
    /\ parse = NoParse
    /\ bld = NoBuild

\* ac.add(p, len(pats)): nothing in add() refuses a call after build().  The
\* program has one thread, so the automaton is only worked on while no
\* search_with_gaps call is running (gpc = "idle"); the same holds of build()
\* and search().
Add(p) ==
    /\ gpc = "idle"
    /\ Len(pats) < MaxPats
    /\ nodes' = add(nodes, p, Len(pats))
    /\ pats' = Append(pats, p)
    /\ dirty' = (nbuilds > 0)
    /\ res' = NoCall
    /\ UNCHANGED <<nbuilds, gvars, gac, scan, xvars>>

\* ac.build(): nothing in build() refuses a second call
Build ==
    /\ gpc = "idle"
    /\ nbuilds < MaxBuilds
    /\ nodes' = build(nodes)
    /\ nbuilds' = nbuilds + 1
    /\ dirty' = FALSE
    /\ res' = NoCall
    /\ UNCHANGED <<pats, gvars, gac, scan, xvars>>

\* ac.search(t, yield_matches=True)
Search(t) ==
    /\ gpc = "idle"
    /\ res' = [text |-> t] @@ search(nodes, t)
    /\ UNCHANGED <<nodes, pats, nbuilds, dirty, gvars, gac, scan, xvars>>

Next ==
    \/ \E p \in Patterns : Add(p)
    \/ Build
    \/ \E t \in Texts : Search(t)

Spec == Init /\ [][Next]_vars

-----------------------------------------------------------------------------
\* One call search_with_gaps(gtext, gpats, gmin), its arguments drawn at the
\* start.

GapInit ==
    /\ nodes = NewArena
    /\ pats = <<>>
    /\ nbuilds = 0
    /\ dirty = FALSE
    /\ res = NoCall
    /\ scan = Idle
    /\ parse = NoParse
    /\ bld = NoBuild
    /\ gtext \in Texts
    /\ gpats \in GapLists(MaxGapPats)
    /\ gmin \in 1..MaxSeedLen
    /\ gpc = "prepare"
    /\ gac = NewArena
    /\ gmeta = <<>>
    /\ gmatches = [k \in 1..Len(gpats) |-> <<>>]
    /\ ghits = <<>>

\* one iteration of `for pid, pat in enumerate(patterns)`: a ValueError of
\* the parser leaves the function, and nothing is returned
GapPrepare ==
    /\ gpc = "prepare"
    /\ Len(gmeta) < Len(gpats)
    /\ LET pid == Len(gmeta)
           pat == gpats[pid + 1]
           parsed == parse_pattern_with_gaps(pat)
       IN  IF parsed.error
           THEN /\ gpc' = "error"
                /\ UNCHANGED <<gac, gmeta>>
           ELSE LET prep == PreparePattern(gac, pat, parsed.tokens, pid, gmin)
                IN  /\ gac' = prep.nodes
                    /\ gmeta' = Append(gmeta, prep.meta)
                    /\ gpc' = gpc
    /\ UNCHANGED <<avars, scan, xvars, gtext, gpats, gmin, gmatches, ghits>>

\* ac.build()
GapBuild ==
    /\ gpc = "prepare"
    /\ Len(gmeta) = Len(gpats)
    /\ gac' = gbuild(gac)
    /\ gpc' = "scan"
    /\ UNCHANGED <<avars, scan, xvars, gtext, gpats, gmin, gmeta, gmatches, ghits>>

\* the loop over ac.search_generator(text), and `return matches_by_pat`
GapScan ==
    /\ gpc = "scan"
    /\ ghits' = search_generator(gac, gtext)
    /\ gmatches' = RecordHits(gtext, gmeta, ghits', 1, gmatches)
    /\ gpc' = "done"
    /\ UNCHANGED <<avars, scan, xvars, gtext, gpats, gmin, gac, gmeta>>

GapNext == GapPrepare \/ GapBuild \/ GapScan

SpecGap == GapInit /\ [][GapNext]_vars

\* Both scanners at work: runs of the exact automaton's add / build / search
\* and calls of search_with_gaps, which drives search_generator.  A run is one
\* or the other: the exact automaton is only worked on outside such a call.
SpecScanners == (Init \/ GapInit) /\ [][Next \/ GapNext]_vars

-----------------------------------------------------------------------------
\* Scans of a built automaton, interleaved symbol by symbol: a search() call
\* on the exact automaton and a search_generator() generator on the gapped
\* matcher's automaton, both automata built once from the same patterns.

\* add() of the patterns ps in the order given, each with its own identifier
RECURSIVE AddInOrder(_, _, _, _)
AddInOrder(ns, ps, order, k) ==
    IF k > Len(ps) THEN ns
    ELSE AddInOrder(add(ns, ps[order[k]], order[k] - 1), ps, order, k + 1)

Identity(n) == [k \in 1..n |-> k]

\* ac.add(p, i) for the patterns in list order, then ac.build()
FreshAutomaton(ps) == build(AddInOrder(NewArena, ps, Identity(Len(ps)), 1))

RECURSIVE GAddAll(_, _, _)
GAddAll(ns, ps, k) ==
    IF k > Len(ps) THEN ns
    ELSE GAddAll(gadd(ns, ps[k], k - 1, [offset |-> 0, seed_len |-> Len(ps[k])]), ps, k + 1)

\* the same for the gapped matcher's automaton, each pattern one seed
FreshSeedAutomaton(ps) == gbuild(GAddAll(NewArena, ps, 1))

ScanInit ==
    /\ pats \in ListsUpTo(ScanStrings, MaxPats)
    /\ nodes = FreshAutomaton(pats)
    /\ nbuilds = 1
    /\ dirty = FALSE
    /\ res = NoCall
    /\ gtext = <<>>
    /\ gpats = <<>>
    /\ gmin = 0
    /\ gpc = "idle"
    /\ gac = FreshSeedAutomaton(pats)
    /\ gmeta = <<>>
    /\ gmatches = <<>>
    /\ ghits = <<>>
    /\ scan = Idle
    /\ parse = NoParse
    /\ bld = NoBuild

\* a faulty scanner: the current node is kept in one place for all scans
CursorShared(sc, s) == sc[1].st.node

\* the current node of scan s: the local variable `node` of its call
Cursor(sc, s) == sc[s].st.node

\* ac.search(t, True) is entered: node = root, total = 0, matches = [], idx = 0
SearchCall(t) ==
    /\ scan[1].pc # "run"
    /\ scan' = [scan EXCEPT ![1] = [pc |-> "run", text |-> t, pos |-> 0, st |-> ScanStart]]
    /\ UNCHANGED <<avars, gvars, gac, xvars>>

\* one iteration of search()'s `for ch in text`
SearchIter ==
    /\ scan[1].pc = "run"
    /\ scan[1].pos < Len(scan[1].text)
    /\ scan' = [scan EXCEPT
                  ![1].st = SearchStep(nodes, [scan[1].st EXCEPT !.node = Cursor(scan, 1)],
                                       scan[1].text[scan[1].pos + 1]),
                  ![1].pos = @ + 1]
    /\ UNCHANGED <<avars, gvars, gac, xvars>>

\* search() returns (total, matches)
SearchReturn ==
    /\ scan[1].pc = "run"
    /\ scan[1].pos = Len(scan[1].text)
    /\ scan' = [scan EXCEPT ![1].pc = "done"]
    /\ UNCHANGED <<avars, gvars, gac, xvars>>

\* ac.search_generator(t) is created and entered: node = root
GenCall(t) ==
    /\ scan[2].pc # "run"
    /\ scan' = [scan EXCEPT ![2] = [pc |-> "run", text |-> t, pos |-> 0, st |-> GenStart]]
    /\ UNCHANGED <<avars, gvars, gac, xvars>>

\* one iteration of search_generator()'s `for idx, ch in enumerate(text)`,
\* its yields taken by the consumer
GenIter ==
    /\ scan[2].pc = "run"
    /\ scan[2].pos < Len(scan[2].text)
    /\ scan' = [scan EXCEPT
                  ![2].st = GenStep(gac, [scan[2].st EXCEPT !.node = Cursor(scan, 2)],
                                    scan[2].pos, scan[2].text[scan[2].pos + 1]),
                  ![2].pos = @ + 1]
    /\ UNCHANGED <<avars, gvars, gac, xvars>>

\* the generator is exhausted
GenReturn ==
    /\ scan[2].pc = "run"
    /\ scan[2].pos = Len(scan[2].text)
    /\ scan' = [scan EXCEPT ![2].pc = "done"]
    /\ UNCHANGED <<avars, gvars, gac, xvars>>

ScanNext ==
    \/ \E t \in ScanStrings : SearchCall(t)
    \/ SearchIter
    \/ SearchReturn
    \/ \E t \in ScanStrings : GenCall(t)
    \/ GenIter
    \/ GenReturn

SpecScan == ScanInit /\ [][ScanNext]_vars

-----------------------------------------------------------------------------
\* One call parse_pattern_with_gaps(pat), its argument drawn at the start, the
\* loop `while i < len(s)` taken one pass at a time.

ParseInit ==
    /\ nodes = NewArena
    /\ pats = <<>>
    /\ nbuilds = 0
    /\ dirty = FALSE
    /\ res = NoCall
    /\ GapIdle
    /\ scan = Idle
    /\ bld = NoBuild
    /\ \E pat \in ParseStrings : parse = [NoParse EXCEPT !.pc = "call", !.pat = pat]

\* s = pat.strip().upper(); tokens = []; i = 0
ParseEnter ==
    /\ parse.pc = "call"
    /\ parse' = [parse EXCEPT !.pc = "loop", !.s = Normalise(parse.pat),
                              !.i = 0, !.tokens = <<>>]
    /\ UNCHANGED <<avars, gvars, gac, scan, bld>>

\* one pass of the loop body; a ValueError ends the call
ParseStep ==
    /\ parse.pc = "loop"
    /\ parse.i < Len(parse.s)
    /\ LET r == ParseIter(parse.s, parse.i, parse.tokens)
       IN  parse' = IF r.error
                    THEN [parse EXCEPT !.pc = "error", !.tokens = <<>>]
                    ELSE [parse EXCEPT !.i = r.i, !.tokens = r.tokens]
    /\ UNCHANGED <<avars, gvars, gac, scan, bld>>

\* the loop test fails: return tokens
ParseReturn ==
    /\ parse.pc = "loop"
    /\ ~(parse.i < Len(parse.s))
    /\ parse' = [parse EXCEPT !.pc = "done"]
    /\ UNCHANGED <<avars, gvars, gac, scan, bld>>

ParseNext == ParseEnter \/ ParseStep \/ ParseReturn

SpecParse == ParseInit /\ [][ParseNext]_vars

-----------------------------------------------------------------------------
\* An automaton of its own, bld.ns, taken through add() calls, one build() and
\* one search(), the loops of build() and search() one pass at a time.  Queue,
\* r, k, ch, u, v are build()'s locals (k the position in r.next.items());
\* text and st are search()'s argument and locals.  History: deq lists the
\* nodes popleft() returned, walked counts the passes of the failure-chain
\* loop running now, seen lists the text positions search() has taken.

BuildInit ==
    /\ nodes = NewArena
    /\ pats = <<>>
    /\ nbuilds = 0
    /\ dirty = FALSE
    /\ res = NoCall
    /\ GapIdle
    /\ scan = Idle
    /\ parse = NoParse
    /\ bld = [NoBuild EXCEPT !.pc = "open"]

\* walked after one more pass; the count stops at the number of nodes, which
\* no walk along distinct nodes can reach
Bump(b) == IF b.walked < Len(b.ns) THEN b.walked + 1 ELSE b.walked

\* a faulty failure-chain loop: it stays at the node it is at
FailOfSelf(ns, v) == v

\* `v = v.fail` of build(), `node = node.fail` of search()
FailOf(ns, v) == ns[v].fail

\* the loop test `v is not self.root and ch not in v.next`
WalkOn(ns, v, ch) == v # Root /\ ~HasNext(ns[v], ch)

\* ac.add(p, len(ps)) before build()
OpenAdd(p) ==
    /\ bld.pc = "open"
    /\ Len(bld.ps) < MaxPats
    /\ bld' = [bld EXCEPT !.ns = add(bld.ns, p, Len(bld.ps)), !.ps = Append(@, p)]
    /\ UNCHANGED <<avars, gvars, gac, scan, parse>>

\* build(): queue = deque(); root.fail = root; the root's children get
\* fail = root and are queued
BuildEnter ==
    /\ bld.pc = "open"
    /\ LET s == BuildSeed(bld.ns)
       IN  bld' = [bld EXCEPT !.pc = "loop", !.ns = s.nodes, !.queue = s.queue]
    /\ UNCHANGED <<avars, gvars, gac, scan, parse>>

\* build(): `while queue: r = queue.popleft()`
BuildPop ==
    /\ bld.pc = "loop"
    /\ bld.queue # <<>>
    /\ bld' = [bld EXCEPT !.pc = "children", !.r = Head(bld.queue),
                          !.queue = Tail(bld.queue), !.k = 1,
                          !.deq = Append(@, Head(bld.queue))]
    /\ UNCHANGED <<avars, gvars, gac, scan, parse>>

\* build(): `for ch, u in r.next.items(): queue.append(u); v = r.fail`.  A
\* fail that is still None makes the loop test that follows raise.
BuildChild ==
    /\ bld.pc = "children"
    /\ bld.k <= Len(bld.ns[bld.r].next)
    /\ LET item == bld.ns[bld.r].next[bld.k]
           v == bld.ns[bld.r].fail
       IN  bld' = [bld EXCEPT !.pc = IF v = None THEN "error" ELSE "walk",
                              !.ch = item[1], !.u = item[2],
                              !.queue = Append(@, item[2]),
                              !.v = v, !.walked = 0]
    /\ UNCHANGED <<avars, gvars, gac, scan, parse>>

\* build(): one pass of `while v is not self.root and ch not in v.next: v = v.fail`
BuildWalk ==
    /\ bld.pc = "walk"
    /\ WalkOn(bld.ns, bld.v, bld.ch)
    /\ LET v == FailOf(bld.ns, bld.v)
       IN  bld' = [bld EXCEPT !.pc = IF v = None THEN "error" ELSE "walk",
                              !.v = v, !.walked = Bump(bld)]
    /\ UNCHANGED <<avars, gvars, gac, scan, parse>>

\* build(): the loop test fails: u.fail = v.next[ch] if ch in v.next else
\* self.root; u.out += u.fail.out; on to the next item of r.next
BuildLink ==
    /\ bld.pc = "walk"
    /\ ~WalkOn(bld.ns, bld.v, bld.ch)
    /\ LET ns == bld.ns
           f == IF HasNext(ns[bld.v], bld.ch) THEN GetNext(ns[bld.v], bld.ch) ELSE Root
           ns2 == [ns EXCEPT ![bld.u].fail = f]
           ns3 == [ns2 EXCEPT ![bld.u].out = @ \o ns2[f].out]
       IN  bld' = [bld EXCEPT !.pc = "children", !.ns = ns3, !.k = @ + 1]
    /\ UNCHANGED <<avars, gvars, gac, scan, parse>>

\* build(): r.next.items() is used up: back to `while queue`
BuildChildrenDone ==
    /\ bld.pc = "children"
    /\ bld.k > Len(bld.ns[bld.r].next)
    /\ bld' = [bld EXCEPT !.pc = "loop"]
    /\ UNCHANGED <<avars, gvars, gac, scan, parse>>

\* build(): the queue is empty: the nodes get their ids, build() returns
BuildReturn ==
    /\ bld.pc = "loop"
    /\ bld.queue = <<>>
    /\ bld' = [bld EXCEPT !.pc = "built", !.ns = AssignIds(bld.ns)]
    /\ UNCHANGED <<avars, gvars, gac, scan, parse>>

\* ac.search(t, True) is called: node = root, total = 0, matches = [], idx = 0
StepCall(t) ==
    /\ bld.pc = "built"
    /\ bld' = [bld EXCEPT !.pc = "scan", !.text = t, !.st = ScanStart]
    /\ UNCHANGED <<avars, gvars, gac, scan, parse>>

\* search(): `for ch in text` takes the next symbol; one outside the
\* alphabet resets to the root and goes on to the next symbol
StepSymbol ==
    /\ bld.pc = "scan"
    /\ bld.st.idx < Len(bld.text)
    /\ LET ch == bld.text[bld.st.idx + 1]
       IN  bld' = IF OutOfAlphabet(ch)
                  THEN [bld EXCEPT !.ch = ch, !.seen = Append(@, bld.st.idx),
                                   !.st.node = Root, !.st.idx = @ + 1]
                  ELSE [bld EXCEPT !.pc = "follow", !.ch = ch, !.walked = 0,
                                   !.seen = Append(@, bld.st.idx)]
    /\ UNCHANGED <<avars, gvars, gac, scan, parse>>

\* search(): one pass of `while node is not self.root and ch not in node.next:
\* node = node.fail`
StepWalk ==
    /\ bld.pc = "follow"
    /\ WalkOn(bld.ns, bld.st.node, bld.ch)
    /\ LET v == FailOf(bld.ns, bld.st.node)
       IN  bld' = [bld EXCEPT !.pc = IF v = None THEN "error" ELSE "follow",
                              !.st.node = v, !.walked = Bump(bld)]
    /\ UNCHANGED <<avars, gvars, gac, scan, parse>>

\* search(): the loop test fails: node = node.next[ch] if ch in node.next
\* else self.root; the node's outputs are counted and listed; idx += 1
StepMove ==
    /\ bld.pc = "follow"
    /\ ~WalkOn(bld.ns, bld.st.node, bld.ch)
    /\ LET ns == bld.ns
           w == bld.st.node
           n2 == IF HasNext(ns[w], bld.ch) THEN GetNext(ns[w], bld.ch) ELSE Root
       IN  bld' = [bld EXCEPT !.pc = "scan",
                              !.st = [node |-> n2,
                                      idx |-> bld.st.idx + 1,
                                      total |-> bld.st.total + Len(ns[n2].out),
                                      matches |-> bld.st.matches
                                                      \o Tagged(bld.st.idx, ns[n2].out),
                                      error |-> FALSE]]
    /\ UNCHANGED <<avars, gvars, gac, scan, parse>>

\* search(): the text is used up: return (total, matches)
StepReturn ==
    /\ bld.pc = "scan"
    /\ ~(bld.st.idx < Len(bld.text))
    /\ bld' = [bld EXCEPT !.pc = "returned"]
    /\ UNCHANGED <<avars, gvars, gac, scan, parse>>

BuildNext ==
    \/ \E p \in BuildStrings : OpenAdd(p)
    \/ BuildEnter
    \/ BuildPop
    \/ BuildChild
    \/ BuildWalk
    \/ BuildLink
    \/ BuildChildrenDone
    \/ BuildReturn
    \/ \E t \in Texts : StepCall(t)
    \/ StepSymbol
    \/ StepWalk
    \/ StepMove
    \/ StepReturn

SpecBuild == BuildInit /\ [][BuildNext]_vars

\* A call that has been made runs on: Python runs build() and search() to
\* their end once called, nothing else can stop them.  Adding a pattern,
\* calling build() and calling search() are the caller's choice.
BuildRuns ==
    \/ BuildPop
    \/ BuildChild
    \/ BuildWalk
    \/ BuildLink
    \/ BuildChildrenDone
    \/ BuildReturn
    \/ StepSymbol
    \/ StepWalk
    \/ StepMove
    \/ StepReturn

SpecBuildFair == SpecBuild /\ WF_vars(BuildRuns)

-----------------------------------------------------------------------------
\* Reference notions the properties are stated with.

Range(f) == {f[k] : k \in DOMAIN f}

\* the automaton was filled by add() calls and then built exactly once
BuiltOnce == nbuilds = 1 /\ ~dirty

\* the automaton's last change was a build()
Built == nbuilds >= 1 /\ ~dirty

\* a search() has returned on the automaton as it is now
Called == res # NoCall

\* a non-empty string of alphabet symbols
IsLiteral(p) == Len(p) >= 1 /\ \A k \in 1..Len(p) : p[k] \in Alphabet

\* p is a substring of text starting at 0-based position s
OccursAt(p, text, s) ==
    /\ s >= 0
    /\ s + Len(p) <= Len(text)
    /\ \A k \in 1..Len(p) : text[s + k] = p[k]

\* brute-force scan: every (start, pattern id) with the pattern at that start
BrutePairs(ps, text) ==
    {m \in (0..Len(text)) \X (0..Len(ps) - 1) : OccursAt(ps[m[2] + 1], text, m[1])}

\* the same occurrences, named by the index of their last symbol
BruteEnds(ps, text) ==
    {<<m[1] + Len(ps[m[2] + 1]) - 1, m[2]>> : m \in BrutePairs(ps, text)}

\* what search() must return for patterns ps on the text of res
AgreesWithBruteForce(ps) ==
    /\ ~res.error
    /\ res.total = Cardinality(BrutePairs(ps, res.text))
    /\ Len(res.matches) = res.total
    /\ Range(res.matches) = BruteEnds(ps, res.text)

\* the node reached from the root by string s (None when the path leaves the trie)
RECURSIVE ReachFrom(_, _, _, _)
ReachFrom(ns, node, s, i) ==
    IF i > Len(s) THEN node
    ELSE IF HasNext(ns[node], s[i]) THEN ReachFrom(ns, GetNext(ns[node], s[i]), s, i + 1)
    ELSE None

Reach(ns, s) == ReachFrom(ns, Root, s, 1)

IsPrefixOfPattern(s) ==
    \E i \in 1..Len(pats) :
        Len(s) <= Len(pats[i]) /\ SubSeq(pats[i], 1, Len(s)) = s

Suffix(s, k) == SubSeq(s, k, Len(s))

\* the longest proper suffix of s that is a prefix of an inserted pattern
\* (the empty string when no other is)
LongestBorder(s) ==
    LET ks == {k \in 2..Len(s) : IsPrefixOfPattern(Suffix(s, k))}
    IN  IF ks = {} THEN <<>>
        ELSE Suffix(s, CHOOSE k \in ks : \A j \in ks : k <= j)

\* the non-empty prefixes of the inserted patterns: the strings of the trie's nodes
TrieStrings ==
    UNION {{SubSeq(pats[i], 1, k) : k \in 1..Len(pats[i])} : i \in 1..Len(pats)}

Orders(n) == {f \in [1..n -> 1..n] : \A i, j \in 1..n : f[i] = f[j] => i = j}

-----------------------------------------------------------------------------
\* C1 (as stated): after add() of any patterns and one build(), search(text)
\* counts exactly the (pattern, occurrence) pairs of a brute-force substring scan
\* and lists each occurrence once, by the index of its last symbol.  Only
\* non-empty patterns are held against it, an occurrence having a last symbol.
C1_AnyPatterns ==
    (BuiltOnce /\ Called /\ \A i \in 1..Len(pats) : Len(pats[i]) >= 1)
        => AgreesWithBruteForce(pats)

\* C1 (amended): the same, for patterns that are non-empty strings of alphabet
\* symbols.
C1_LiteralPatterns ==
    (BuiltOnce /\ Called /\ \A i \in 1..Len(pats) : IsLiteral(pats[i]))
        => AgreesWithBruteForce(pats)

\* AC and CA on ACA: count 2, AC at end index 1 and CA at end index 2
C1_Witness ==
    /\ BuiltOnce
    /\ pats = << <<"A", "C">>, <<"C", "A">> >>
    /\ res.text = <<"A", "C", "A">>
    /\ res.total = 2
    /\ res.matches = << <<1, 0>>, <<2, 1>> >>

\* C6: every match search() reports, and every seed hit search_generator()
\* yields, lies on alphabet symbols only: it is reported at an alphabet symbol,
\* its pattern (its seed) is the text slice ending at the reported index, and
\* no symbol of that slice is outside the alphabet.
C6_NoMatchAcrossReset ==
    /\ Called =>
           \A k \in 1..Len(res.matches) :
               LET i == res.matches[k][1]
                   p == pats[res.matches[k][2] + 1]
               IN  /\ i + 1 \in 1..Len(res.text)
                   /\ res.text[i + 1] \in Alphabet
                   /\ OccursAt(p, res.text, i + 1 - Len(p))
                   /\ \A j \in (i + 2 - Len(p))..(i + 1) : res.text[j] \in Alphabet
    /\ \A k \in 1..Len(ghits) :
           LET i == ghits[k].idx
               n == ghits[k].meta.seed_len
               toks == gmeta[ghits[k].pat_id + 1].tokens
           IN  /\ i + 1 \in 1..Len(gtext)
               /\ n >= 1
               /\ \E t \in 1..Len(toks) :
                      /\ toks[t].typ = "seq"
                      /\ Len(toks[t].val) = n
                      /\ OccursAt(toks[t].val, gtext, i + 1 - n)
               /\ \A j \in (i + 2 - n)..(i + 1) : gtext[j] \in Alphabet

\* a match is reported behind an out-of-alphabet symbol, at its true index, and
\* a pattern that would fit across the symbol is not reported
C6_Witness ==
    /\ Built
    /\ pats = << <<"A", "C">>, <<"C">> >>
    /\ res.text = <<"A", "X", "C">>
    /\ res.matches = << <<2, 1>> >>

\* C7: adding the same patterns with the same identifiers in any other order
\* before build() gives the same set of (position, identifier) matches and the
\* same total.
C7_OrderIndependent ==
    (BuiltOnce /\ Called) =>
        \A order \in Orders(Len(pats)) :
            LET r2 == search(build(AddInOrder(NewArena, pats, order, 1)), res.text)
            IN  /\ r2.error = res.error
                /\ r2.total = res.total
                /\ Range(r2.matches) = Range(res.matches)

\* two patterns whose other insertion order numbers the nodes differently,
\* with matches of both
C7_Witness ==
    /\ BuiltOnce
    /\ Called
    /\ Len(pats) = 2
    /\ build(AddInOrder(NewArena, pats, <<2, 1>>, 1)) # nodes
    /\ \E k, j \in 1..Len(res.matches) : res.matches[k][2] # res.matches[j][2]

\* C8 (as stated): once build() has completed, no further add() or build()
\* happens and no node's failure link or output list changes again.
C8_BuiltExactlyOnce ==
    [][nbuilds >= 1 =>
         /\ pats' = pats
         /\ nbuilds' = nbuilds
         /\ \A n \in 1..Len(nodes) :
                nodes'[n].fail = nodes[n].fail /\ nodes'[n].out = nodes[n].out]_vars

\* C10: after build() the root's failure link is the root, and the node of
\* every non-empty trie string s has as failure link the node of the longest
\* proper suffix of s that is a prefix of an inserted pattern (the root when
\* there is none).
C10_FailureLinks ==
    Built =>
        /\ nodes[Root].fail = Root
        /\ \A n \in 2..Len(nodes) : \E s \in TrieStrings : Reach(nodes, s) = n
        /\ \A s \in TrieStrings :
               /\ Reach(nodes, s) \notin {None, Root}
               /\ nodes[Reach(nodes, s)].fail = Reach(nodes, LongestBorder(s))

\* ACA and C: the failure link of ACA is found by walking from AC's link C,
\* which has no A, back to the root
C10_Witness ==
    /\ Built
    /\ pats = << <<"A", "C", "A">>, <<"C">> >>
    /\ nodes[Reach(nodes, <<"A", "C">>)].fail = Reach(nodes, <<"C">>)
    /\ nodes[Reach(nodes, <<"A", "C", "A">>)].fail = Reach(nodes, <<"A">>)

-----------------------------------------------------------------------------
\* Reference notions of the gapped matcher's properties.

\* pattern pid as search_with_gaps parsed it
TokensOf(pid) == gmeta[pid + 1].tokens

HasLiteral(toks) == \E k \in 1..Len(toks) : toks[k].typ = "seq" /\ toks[k].val # <<>>
HasGap(toks) == \E k \in 1..Len(toks) : toks[k].typ = "gap"

\* the tokens laid on the text from 0-based position s fit into the text and
\* every literal token equals the text under it
MatchesAt(toks, text, s) ==
    /\ s >= 0
    /\ s + TotalLen(toks) <= Len(text)
    /\ \A k \in 1..Len(toks) :
           toks[k].typ = "seq" =>
               \A j \in 1..Len(toks[k].val) :
                   text[s + SpanBefore(toks, k - 1) + j] = toks[k].val[j]

Count(seq, x) == Cardinality({k \in 1..Len(seq) : seq[k] = x})

\* the string holds a `{` with no `}` behind it
Unterminated(p) ==
    \E i \in 1..Len(p) : p[i] = "{" /\ \A j \in (i + 1)..Len(p) : p[j] # "}"

\* what the exact scanner built over the patterns ps reports on the text
ExactMatches(ps, text) == search(FreshAutomaton(ps), text).matches

\* pattern pid has the same intervals, as often, in the gapped result as the
\* exact scanner reports end indices for it
SameAsExact(pid) ==
    LET exact == ExactMatches(gpats, gtext)
        n == Len(gpats[pid + 1])
    IN  \A e \in 0..Len(gtext), s \in (0 - MaxGapChars)..Len(gtext) :
            Count(gmatches[pid + 1], <<s, e>>)
                = (IF s = e - n THEN Count(exact, <<e - 1, pid>>) ELSE 0)

\* C2 (as stated): when no parsed pattern has a gap token, search_with_gaps
\* reports for every pattern the positions the exact scanner built over the
\* same pattern strings reports: (s, e) as often as the scanner reports the
\* pattern at end index e - 1, with s = e - len(p).  Only non-empty pattern
\* strings are held against it.
C2_GaplessAsExact ==
    (/\ gpc = "done"
     /\ \A k \in 1..Len(gpats) : Len(gpats[k]) >= 1 /\ ~HasGap(TokensOf(k - 1)))
        => \A k \in 1..Len(gpats) : SameAsExact(k - 1)

\* C2 (amended): the same, for pattern strings that are non-empty strings of
\* alphabet symbols.
C2_LiteralAsExact ==
    (gpc = "done" /\ \A k \in 1..Len(gpats) : IsLiteral(gpats[k]))
        => \A k \in 1..Len(gpats) : SameAsExact(k - 1)

\* AC and C on CAC with min_seed_len 2: both found, C through the fallback seed
C2_Witness ==
    /\ gpc = "done"
    /\ gpats = << <<"A", "C">>, <<"C">> >>
    /\ gtext = <<"C", "A", "C">>
    /\ gmin = 2
    /\ gmatches = << << <<1, 3>> >>, << <<0, 1>>, <<2, 3>> >> >>

\* C3 (as stated): search_with_gaps records every position at which a pattern
\* with a literal symbol matches: if the pattern's tokens fit at s and every
\* literal token equals its text slice, (s, s + length) is in its match list.
C3_FindsEveryOccurrence ==
    gpc = "done" =>
        \A pid \in 0..Len(gpats) - 1, s \in 0..Len(gtext) :
            (HasLiteral(TokensOf(pid)) /\ MatchesAt(TokensOf(pid), gtext, s))
                => \E k \in 1..Len(gmatches[pid + 1]) :
                       gmatches[pid + 1][k] = <<s, s + TotalLen(TokensOf(pid))>>

\* the seed hit as the matcher must anchor it: start, and whether the pattern
\* is there
HitIsMatch(hit) ==
    MatchesAt(TokensOf(hit.pat_id), gtext,
              hit.idx - (hit.meta.seed_len - 1) - hit.meta.offset)

RECURSIVE TotalRecorded(_)
TotalRecorded(k) == IF k = 0 THEN 0 ELSE TotalRecorded(k - 1) + Len(gmatches[k])

\* C4: every recorded interval (start, end) of a pattern lies in the text, has
\* the pattern's span as length and has every literal token of the pattern on
\* the text; a seed hit that does not anchor a match records nothing, and the
\* only error of a call is the parser's.
C4_RecordedAreReal ==
    /\ gpc = "done" =>
           /\ \A pid \in 0..Len(gpats) - 1 :
                  \A k \in 1..Len(gmatches[pid + 1]) :
                      LET iv == gmatches[pid + 1][k]
                      IN  /\ 0 <= iv[1]
                          /\ iv[2] <= Len(gtext)
                          /\ iv[2] - iv[1] = TotalLen(TokensOf(pid))
                          /\ MatchesAt(TokensOf(pid), gtext, iv[1])
           /\ TotalRecorded(Len(gmatches))
                  = Cardinality({k \in 1..Len(ghits) : HitIsMatch(ghits[k])})
    /\ gpc = "error" => \E k \in 1..Len(gpats) : parse_pattern_with_gaps(gpats[k]).error

\* one call with a recorded interval, a seed hit anchored before the text's
\* start or past its end, and a seed hit inside the text whose replay fails
C4_Witness ==
    /\ gpc = "done"
    /\ TotalRecorded(Len(gmatches)) > 0
    /\ \E k \in 1..Len(ghits) :
           LET start == ghits[k].idx - (ghits[k].meta.seed_len - 1) - ghits[k].meta.offset
           IN  start < 0 \/ start + TotalLen(TokensOf(ghits[k].pat_id)) > Len(gtext)
    /\ \E k \in 1..Len(ghits) :
           LET start == ghits[k].idx - (ghits[k].meta.seed_len - 1) - ghits[k].meta.offset
           IN  /\ start >= 0
               /\ start + TotalLen(TokensOf(ghits[k].pat_id)) <= Len(gtext)
               /\ ~HitIsMatch(ghits[k])

\* C5: a pattern string with a `{` and no `}` behind it makes the parser fail,
\* and a call whose pattern list holds one never gets past that pattern: it
\* ends in the error, with no seed hit taken and nothing recorded.
C5_UnterminatedBraceAborts ==
    /\ \A k \in 1..Len(gpats) :
           Unterminated(gpats[k]) =>
               /\ parse_pattern_with_gaps(gpats[k]).error
               /\ Len(gmeta) < k
               /\ gpc \in {"prepare", "error"}
    /\ gpc = "error" =>
           /\ ghits = <<>>
           /\ \A k \in 1..Len(gmatches) : gmatches[k] = <<>>
           /\ parse_pattern_with_gaps(gpats[Len(gmeta) + 1]).error

\* the call has prepared a first pattern and failed on the second, A{
C5_Witness ==
    /\ gpc = "error"
    /\ gpats = << <<"C">>, <<"A", "{">> >>
    /\ gtext = <<"C", "A", "C">>
    /\ Len(gmeta) = 1
    /\ Len(gac) = 2

-----------------------------------------------------------------------------
\* Output lists after build().

\* the entries add() appended at node n itself, in insertion order: the
\* identifiers of the patterns whose path ends at n
RECURSIVE OwnUpTo(_, _)
OwnUpTo(n, k) ==
    IF k = 0 THEN <<>>
    ELSE IF Reach(nodes, pats[k]) = n THEN Append(OwnUpTo(n, k - 1), k - 1)
    ELSE OwnUpTo(n, k - 1)

Own(n) == OwnUpTo(n, Len(pats))

\* no entry occurs twice in the list
EachOnce(out) == \A i, j \in 1..Len(out) : out[i] = out[j] => i = j

\* C11: after build(), every node below the root (the root's direct children
\* and the nodes whose failure link is the root included) has as output list
\* the entries of the patterns ending at it followed by the output list of
\* its failure link, each entry once, for every pattern set, duplicates and
\* the empty pattern included.
C11_OutputLists ==
    BuiltOnce =>
        \A n \in 2..Len(nodes) :
            /\ nodes[n].out = Own(n) \o nodes[nodes[n].fail].out
            /\ EachOnce(nodes[n].out)

-----------------------------------------------------------------------------
\* The token list of a pattern string.

\* the token list read off the normalised string s from 0-based position i on,
\* each position reached lying outside a literal run: one literal token per
\* maximal run of alphabet symbols, one gap token per maximal run of '.', one
\* gap token per '{n}', any other character skipped; with bareN, an N met
\* outside a literal run is a gap token of length 1
RECURSIVE ExpectedTokens(_, _, _)
ExpectedTokens(s, i, bareN) ==
    IF i >= Len(s) THEN <<>>
    ELSE LET ch == s[i + 1]
         IN  IF bareN /\ ch = "N"
             THEN <<GapToken(1)>> \o ExpectedTokens(s, i + 1, bareN)
             ELSE IF ch \in Alphabet
             THEN LET j == RunEnd(s, i, "seq")
                  IN  <<SeqToken(SubSeq(s, i + 1, j))>> \o ExpectedTokens(s, j, bareN)
             ELSE IF ch = "."
             THEN LET j == RunEnd(s, i, "dots")
                  IN  <<GapToken(j - i)>> \o ExpectedTokens(s, j, bareN)
             ELSE IF ch = "{"
             THEN LET j == RunEnd(s, i + 1, "brace")
                  IN  <<GapToken(IntValue(SubSeq(s, i + 2, j)))>>
                          \o ExpectedTokens(s, j + 1, bareN)
             ELSE ExpectedTokens(s, i + 1, bareN)

\* C12: the token list parse_pattern_with_gaps returns has a gap token of
\* length 1 for every N outside a literal run (at the start of the pattern,
\* directly after a gap marker, after a skipped character) and otherwise one
\* literal token per maximal run of alphabet symbols, one gap token of the
\* run's length per maximal run of '.', one gap token of length n per '{n}',
\* every other character skipped.
C12_BareNIsGap ==
    parse.pc = "done" => parse.tokens = ExpectedTokens(parse.s, 0, TRUE)

-----------------------------------------------------------------------------
\* Termination of add(), build() and search().

InBuild == bld.pc \in {"loop", "children", "walk"}
AfterBuild == bld.pc \in {"built", "scan", "follow", "returned"}
InSearch == bld.pc \in {"scan", "follow"}

\* what holds at every step of the calls: nothing raises; no node is
\* dequeued twice, and when build() has returned every node but the root was
\* dequeued; a failure-chain walk stands at a node whose failure link is set,
\* and has made fewer passes than there are nodes; search() takes the text
\* positions in order, each once; an automaton of no patterns is the root
\* alone and matches nothing
C13_Steps ==
    /\ bld.pc # "error"
    /\ EachOnce(bld.deq)
    /\ Range(bld.deq) \subseteq 2..Len(bld.ns)
    /\ AfterBuild => Range(bld.deq) = 2..Len(bld.ns)
    /\ bld.pc = "walk" => bld.ns[bld.v].fail # None /\ bld.walked < Len(bld.ns)
    /\ bld.pc = "follow" =>
           bld.ns[bld.st.node].fail # None /\ bld.walked < Len(bld.ns)
    /\ bld.seen = [k \in 1..Len(bld.seen) |-> k - 1]
    /\ bld.pc = "scan" => Len(bld.seen) = bld.st.idx
    /\ bld.pc = "returned" => Len(bld.seen) = Len(bld.text)
    /\ AfterBuild /\ bld.ps = <<>> => Len(bld.ns) = 1 /\ bld.st.total = 0

\* C13: add() and build() never fail and always end: for every pattern set,
\* the empty one included, build() dequeues every node but the root exactly
\* once, its failure-chain walks only stand at nodes whose failure link is
\* set and end, build() returns, and a search of any text then takes each
\* symbol once and returns.
C13_Terminates ==
    /\ []C13_Steps
    /\ InBuild ~> bld.pc = "built"
    /\ InSearch ~> bld.pc = "returned"

\* AAAC and C, searched in AAC: build() walks two links back from AA to give
\* AAAC its failure link, search() walks the same two links at the C
C13_Witness ==
    /\ bld.pc = "returned"
    /\ bld.ps = << <<"A", "A", "A", "C">>, <<"C">> >>
    /\ bld.text = <<"A", "A", "C">>
    /\ bld.deq = <<2, 6, 3, 4, 5>>
    /\ bld.walked = 2
    /\ bld.st.matches = << <<2, 1>> >>

-----------------------------------------------------------------------------
\* How often and in which order search_with_gaps records a match.

\* the number of seeds build_seeds_from_pattern finds in the tokens: the
\* literal tokens of at least min_seed_len symbols
SeedCount(toks, min_seed_len) ==
    Cardinality({k \in 1..Len(toks) :
                    toks[k].typ = "seq" /\ Len(toks[k].val) >= min_seed_len})

\* the intervals of pattern pid anchored by the first k seed hits, in the
\* order of the hits, a hit counting when the pattern matches at its anchor
RECURSIVE AnchoredUpTo(_, _)
AnchoredUpTo(pid, k) ==
    IF k = 0 THEN <<>>
    ELSE LET h == ghits[k]
             start == h.idx - (h.meta.seed_len - 1) - h.meta.offset
         IN  IF h.pat_id = pid /\ HitIsMatch(h)
             THEN Append(AnchoredUpTo(pid, k - 1),
                         <<start, start + TotalLen(TokensOf(pid))>>)
             ELSE AnchoredUpTo(pid, k - 1)

\* C14: nothing is deduplicated: for a pattern with k >= 1 seeds, every
\* position at which the pattern matches within the text is in the pattern's
\* match list exactly k times, and the list holds the matches in the order
\* in which their seed hits end in the text.
C14_OncePerSeed ==
    gpc = "done" =>
        /\ \A i \in 1..Len(ghits) - 1 : ghits[i].idx <= ghits[i + 1].idx
        /\ \A pid \in 0..Len(gpats) - 1 :
               SeedCount(TokensOf(pid), gmin) >= 1 =>
                   /\ \A s \in 0..Len(gtext) :
                          MatchesAt(TokensOf(pid), gtext, s) =>
                              Count(gmatches[pid + 1],
                                    <<s, s + TotalLen(TokensOf(pid))>>)
                                  = SeedCount(TokensOf(pid), gmin)
                   /\ gmatches[pid + 1] = AnchoredUpTo(pid, Len(ghits))

\* AXA (the seeds A at 0 and A at 1) on AAA: each of the two matches is listed
\* twice, and the list is not ordered by start
C14_Witness ==
    /\ gpc = "done"
    /\ gpats = << <<"A", "X", "A">> >>
    /\ gtext = <<"A", "A", "A">>
    /\ gmin = 1
    /\ gmatches = << << <<0, 2>>, <<1, 3>>, <<0, 2>>, <<1, 3>> >> >>

====
